---------------------------- MODULE Spec2Model ----------------------------
(***************************************************************************)
(* A model of recurly/__init__.py (recurly-client-python 2.1.7): the       *)
(* entity types declared over the Resource core, the operations they add   *)
(* (Transaction.refund, Transaction.get_refund_transaction,                *)
(* Account.__getattr__, Account.invoice/reopen/update_billing_info,        *)
(* Account.to_element, Invoice.as_pdf), the registration of the entity     *)
(* types at import and objects_for_push_notification.                      *)
(*                                                                         *)
(* recurly/resource.py (Resource, Page) is not part of the sources; what   *)
(* the operations above call in it (from_element, update_from_element,     *)
(* to_element, element_for_url, http_request, raise_http_error,            *)
(* _make_actionator, _learn_nodenames, value_for_element, Page) is         *)
(* modelled from spec.md sections 3, 4 and 7.                              *)
(*                                                                         *)
(* Each operation is one action.  The HTTP server is the environment: the  *)
(* response to a call is chosen with \E from small sets.  The outcome of   *)
(* the latest operation (what it returned or raised, and the HTTP calls    *)
(* it issued, in order) is kept in the variable result.                    *)
(***************************************************************************)
EXTENDS Integers, Sequences, FiniteSets, TLC

VARIABLES
    _classes_for_nodename, \* Type Registry: nodename -> entity type
    classes,               \* values of locals() not yet looked at by _learn_nodenames
    learned,               \* the argument _learn_nodenames was called with
    config_error,          \* registration ended with a configuration error
    txn,                   \* Transaction instances: [_elem, _refund_transaction_url]
    accepted,              \* history: per Transaction, the Location of its latest 202 refund
    account,               \* an Account instance: [_elem, dict, _url]
    billing_info,          \* a BillingInfo instance: [_elem, dict, _url]
    reads,                 \* history: reads of account.billing_info since the last hydrate/update
    fetches,               \* history: HTTP calls those reads issued
    invoice,               \* an Invoice instance: [_elem, dict]
    notification,          \* the push notification document handed to objects_for_push_notification
    objects,               \* the mapping objects_for_push_notification returned
    collection,            \* the server's pages of the collection being traversed
    page,                  \* Page: the items not yet yielded and the next-page link
    yielded,               \* the entities the Page sequence has yielded, in order
    requests,              \* reading calls the traversal has issued
    coupon,                \* the Coupon attribute being encoded or decoded: [source, attrname, value, elem]
    result                 \* outcome of the latest operation

regVars  == <<_classes_for_nodename, classes, learned, config_error>>
txnVars  == <<txn, accepted>>
acctVars == <<account, billing_info, reads, fetches>>
invVars  == <<invoice>>
pushVars == <<notification, objects>>
pageVars == <<collection, page, yielded, requests>>
couponVars == <<coupon>>
vars == <<regVars, txnVars, acctVars, invVars, pushVars, pageVars, couponVars, result>>

(***************************************************************************)
(* Python values                                                           *)
(***************************************************************************)
None  == "None"     \* Python's None
Unset == "<unset>"  \* the name is not in the instance's __dict__
NoElem == [tag |-> "<no _elem>", children |-> <<>>]  \* no retained element

\* str.upper() on the method names the wire carries
upper(s) ==
    CASE s = "post"   -> "POST"
      [] s = "Put"    -> "PUT"
      [] s = "delete" -> "DELETE"
      [] s = "get"    -> "GET"
      [] OTHER        -> s

\* dict.get(key) on an attrib mapping
attrib_get(attrib, key) == IF key \in DOMAIN attrib THEN attrib[key] ELSE None

\* Element.findall(tag): the direct children with that tag, in document order
findall(elem, tag) == SelectSeq(elem.children, LAMBDA c : c.tag = tag)

\* the outcome of an operation
Returned(op, self, value, calls) ==
    [op |-> op, self |-> self, kind |-> "return", value |-> value,
     calls |-> calls, response |-> None]
Raised(op, self, exc, calls) ==
    [op |-> op, self |-> self, kind |-> "raise", value |-> exc,
     calls |-> calls, response |-> None]
NoResult ==
    [op |-> "none", self |-> "none", kind |-> "none", value |-> None,
     calls |-> <<>>, response |-> None]

\* the outcome of an operation whose latest call was answered with response
Answered(outcome, response) == [outcome EXCEPT !.response = response]

\* one HTTP call handed to the Transport Gateway: http_request(url, method,
\* body, headers)
Request(url, method, body, headers) ==
    [url |-> url, method |-> method, body |-> body, headers |-> headers]
Call(url, method) == Request(url, method, None, <<>>)

\* urljoin(base, relative) on URLs kept as their path segments: the relative
\* path replaces the last segment of a base that does not end in "/"
urljoin(base, relative) == SubSeq(base, 1, Len(base) - 1) \o relative

\* Element.find(tag): the first direct child with that tag, or NoElem for None
find(elem, tag) ==
    LET found == SelectSeq(elem.children, LAMBDA c : c.tag = tag)
    IN  IF found = <<>> THEN NoElem ELSE Head(found)

\* a child element carrying text, and one carrying attributes only
TextChild(tag, text) == [tag |-> tag, attrib |-> <<>>, text |-> text, children |-> <<>>]
LinkChild(tag, href) == [tag |-> tag, attrib |-> [href |-> href], text |-> None, children |-> <<>>]

(***************************************************************************)
(* Entity types and the Type Registry                                      *)
(***************************************************************************)
\* the classes recurly/__init__.py declares, with their nodename
DeclaredClasses_copiedNodename ==
    { [name |-> "Account",           nodename |-> "account"],
      [name |-> "BillingInfo",       nodename |-> "billing_info"],
      [name |-> "Coupon",            nodename |-> "coupon"],
      [name |-> "Redemption",        nodename |-> "redemption"],
      [name |-> "Adjustment",        nodename |-> "adjustment"],
      [name |-> "Invoice",           nodename |-> "invoice"],
      [name |-> "Subscription",      nodename |-> "subscription"],
      [name |-> "Transaction",       nodename |-> "transaction"],
      [name |-> "Details",           nodename |-> "details"],
      [name |-> "TransactionError",  nodename |-> "transaction_error"],
      [name |-> "Plan",              nodename |-> "plan"],
      [name |-> "AddOn",             nodename |-> "add_on"],
      [name |-> "SubscriptionAddOn", nodename |-> "add_on"] }

DeclaredClasses ==
    { [name |-> "Account",           nodename |-> "account"],
      [name |-> "BillingInfo",       nodename |-> "billing_info"],
      [name |-> "Coupon",            nodename |-> "coupon"],
      [name |-> "Redemption",        nodename |-> "redemption"],
      [name |-> "Adjustment",        nodename |-> "adjustment"],
      [name |-> "Invoice",           nodename |-> "invoice"],
      [name |-> "Subscription",      nodename |-> "subscription"],
      [name |-> "Transaction",       nodename |-> "transaction"],
      [name |-> "Details",           nodename |-> "details"],
      [name |-> "TransactionError",  nodename |-> "transaction_error"],
      [name |-> "Plan",              nodename |-> "plan"],
      [name |-> "AddOn",             nodename |-> "add_on"],
      [name |-> "SubscriptionAddOn", nodename |-> "subscription_add_on"] }

\* what else locals() holds at line 821: the imported names, which are no
\* entity types (nodename None stands for "has no nodename")
OtherLocals ==
    { [name |-> "js", nodename |-> None] }

\* locals().values() at the registration call
ModuleLocals == DeclaredClasses \cup OtherLocals

\* an entity type declared elsewhere under a tag that is already taken; only
\* an argument of _learn_nodenames other than the module's own can hold it
ClashingClass == [name |-> "LegacyAccount", nodename |-> "account"]

\* the fallback type resolve() gives for an unregistered tag
GenericResource == [name |-> "Resource", nodename |-> None]

is_entity_type(c) == c.nodename # None

\* resolve(tag_name): the registered type, or the generic fallback
resolve(registry, tag) ==
    IF tag \in DOMAIN registry THEN registry[tag] ELSE GenericResource

\* the registry once recurly/__init__.py has been imported
LoadedRegistry ==
    [tag \in {c.nodename : c \in DeclaredClasses} |->
        CHOOSE c \in DeclaredClasses : c.nodename = tag]

\* Resource._learn_nodenames, one class of its argument at a time (the
\* argument is a dict's values: no order is promised)
_learn_nodenames(c) ==
    /\ ~config_error
    /\ c \in classes
    /\ classes' = classes \ {c}
    /\ IF ~is_entity_type(c)
       THEN UNCHANGED <<_classes_for_nodename, config_error>>
       ELSE IF c.nodename \in DOMAIN _classes_for_nodename
            THEN /\ config_error' = TRUE
                 /\ UNCHANGED _classes_for_nodename
            ELSE /\ _classes_for_nodename' =
                        [tag \in DOMAIN _classes_for_nodename \cup {c.nodename} |->
                            IF tag = c.nodename THEN c ELSE _classes_for_nodename[tag]]
                 /\ UNCHANGED config_error
    /\ UNCHANGED <<learned, txnVars, acctVars, invVars, pushVars, pageVars, couponVars, result>>

RegistrationDone == classes = {} \/ config_error

(***************************************************************************)
(* Transaction: refund and get_refund_transaction                          *)
(***************************************************************************)
Txns == {"t1", "t2"}

MaxChildren == 2

\* the children a transaction element carries in the model: action anchors
\* in the wire format of spec.md section 6 (name, href, method)
TxnChildren ==
    { [tag |-> "a", attrib |-> [name |-> "refund", href |-> "https://api/x/refund",  method |-> "post"]],
      [tag |-> "a", attrib |-> [name |-> "refund", href |-> "https://api/x/refund2", method |-> "Put"]],
      [tag |-> "a", attrib |-> [name |-> "void",   href |-> "https://api/x/void",    method |-> "delete"]] }

RECURSIVE SeqsUpTo(_, _)
SeqsUpTo(S, n) ==
    IF n = 0 THEN {<<>>}
    ELSE LET shorter == SeqsUpTo(S, n - 1)
         IN  shorter \cup {Append(s, x) : s \in shorter, x \in S}

TxnElems == {[tag |-> "transaction", children |-> cs] : cs \in SeqsUpTo(TxnChildren, MaxChildren)}

Statuses  == {200, 201, 202, 204, 404, 500}
Locations == {"https://api/transactions/r1", "https://api/transactions/r2"}

\* the documents a reading call can answer with
Bodies ==
    { [tag |-> "transaction", children |-> <<>>],
      [tag |-> "gift_card",   children |-> <<>>] }

RefundResponses == [status : Statuses, Location : Locations]
ReadResponses   == [status : {200, 404, 500}, body : Bodies]

\* Resource.value_for_element on an entity element: the instance of the type
\* the Type Registry resolves the tag to, wrapping the element
value_for_element(registry, elem) ==
    [type |-> resolve(registry, elem.tag).name, _elem |-> elem]

\* Resource.element_for_url: a reading call; 404 is not-found, any other
\* non-2xx a request failure
element_for_url_outcome(response) ==
    IF response.status = 404 THEN "NotFoundError"
    ELSE IF response.status < 200 \/ response.status >= 300 THEN "ResponseError"
    ELSE "ok"

\* line 661: is this anchor the refund action?
is_refund_anchor_anyName(anchor_elem) ==
    "name" \in DOMAIN anchor_elem.attrib

is_refund_anchor(anchor_elem) ==
    attrib_get(anchor_elem.attrib, "name") = "refund"

\* lines 659-663: the loop over selfnode.findall('a')
RECURSIVE refund_anchor_scan(_, _)
refund_anchor_scan(anchors, found) ==
    IF anchors = <<>> THEN found
    ELSE LET anchor_elem == Head(anchors) IN
         IF is_refund_anchor(anchor_elem)
         THEN IF {"href", "method"} \subseteq DOMAIN anchor_elem.attrib
              THEN refund_anchor_scan(Tail(anchors),
                       [url |-> anchor_elem.attrib.href,
                        method |-> upper(anchor_elem.attrib.method),
                        error |-> None])
              ELSE [url |-> None, method |-> None, error |-> "KeyError"]
         ELSE refund_anchor_scan(Tail(anchors), found)

\* lines 620-625
_handle_refund_accepted_any2xx(self, response) ==
    IF response.status < 200 \/ response.status >= 300
    THEN [raised |-> TRUE, self |-> self]
    ELSE [raised |-> FALSE,
          self |-> [self EXCEPT !._refund_transaction_url = response.Location]]

_handle_refund_accepted_keepFirst(self, response) ==
    IF response.status # 202
    THEN [raised |-> TRUE, self |-> self]
    ELSE [raised |-> FALSE,
          self |-> IF self._refund_transaction_url = Unset
                   THEN [self EXCEPT !._refund_transaction_url = response.Location]
                   ELSE self]

_handle_refund_accepted(self, response) ==
    IF response.status # 202
    THEN [raised |-> TRUE, self |-> self]
    ELSE [raised |-> FALSE,
          self |-> [self EXCEPT !._refund_transaction_url = response.Location]]

\* Resource._make_actionator(url, method, extra_handler)(): issue the call,
\* then apply the action's response handler
actionator(t, url, method, response) ==
    LET handled == _handle_refund_accepted(txn[t], response)
        calls   == <<Call(url, method)>>
    IN  /\ txn' = [txn EXCEPT ![t] = handled.self]
        /\ result' = Answered(IF handled.raised
                              THEN Raised("refund", t, "ResponseError", calls)
                              ELSE Returned("refund", t, t, calls),
                              response)
        /\ accepted' = IF response.status = 202
                       THEN [accepted EXCEPT ![t] = response.Location]
                       ELSE accepted

\* lines 644-670
refund(t) ==
    /\ IF txn[t]._elem = NoElem
       THEN /\ result' = Raised("refund", t, "AttributeError", <<>>)
            /\ UNCHANGED txnVars
       ELSE LET found == refund_anchor_scan(findall(txn[t]._elem, "a"),
                             [url |-> None, method |-> None, error |-> None])
            IN  IF found.error # None
                THEN /\ result' = Raised("refund", t, found.error, <<>>)
                     /\ UNCHANGED txnVars
                ELSE IF found.url = None \/ found.method = None
                THEN /\ result' = Raised("refund", t, "AttributeError", <<>>)
                     /\ UNCHANGED txnVars
                ELSE \E response \in RefundResponses :
                        actionator(t, found.url, found.method, response)
    /\ UNCHANGED <<regVars, acctVars, invVars, pushVars, pageVars, couponVars>>

\* lines 627-642
get_refund_transaction(t) ==
    /\ IF txn[t]._refund_transaction_url = Unset
       THEN result' = Raised("get_refund_transaction", t, "ValueError", <<>>)
       ELSE \E response \in ReadResponses :
              LET calls   == <<Call(txn[t]._refund_transaction_url, "GET")>>
                  outcome == element_for_url_outcome(response)
              IN  result' = Answered(
                    IF outcome # "ok"
                    THEN Raised("get_refund_transaction", t, outcome, calls)
                    ELSE Returned("get_refund_transaction", t,
                             value_for_element(_classes_for_nodename, response.body),
                             calls),
                    response)
    /\ UNCHANGED <<regVars, txnVars, acctVars, invVars, pushVars, pageVars, couponVars>>

\* Transaction.from_element(elem): a new instance wrapping the element
txn_from_element(t, elem) ==
    /\ txn' = [txn EXCEPT ![t] = [_elem |-> elem, _refund_transaction_url |-> Unset]]
    /\ accepted' = [accepted EXCEPT ![t] = Unset]
    /\ result' = Returned("from_element", t, t, <<>>)
    /\ UNCHANGED <<regVars, acctVars, invVars, pushVars, pageVars, couponVars>>

\* update_from_element(elem): the retained element is replaced in place
txn_update_from_element(t, elem) ==
    /\ txn' = [txn EXCEPT ![t]._elem = elem]
    /\ result' = Returned("update_from_element", t, t, <<>>)
    /\ UNCHANGED <<accepted, regVars, acctVars, invVars, pushVars, pageVars, couponVars>>

(***************************************************************************)
(* Account and BillingInfo                                                 *)
(***************************************************************************)
\* lines 41-62
Account_attributes ==
    <<"account_code", "billing_info", "state", "username", "email", "first_name",
      "last_name", "company_name", "accept_language", "hosted_login_token",
      "created_at">>
Account_sensitive_attributes == {"number", "verification_value"}
Account_linked_attributes ==
    {"adjustments", "billing_info", "invoices", "redemption", "subscriptions",
     "transactions"}

\* lines 208-237
BillingInfo_attributes ==
    <<"type", "first_name", "last_name", "number", "verification_value", "year",
      "month", "start_month", "start_year", "issue_number", "company", "address1",
      "address2", "city", "state", "zip", "country", "phone", "vat_number",
      "ip_address", "ip_address_country", "card_type", "first_six", "last_four",
      "billing_agreement_id">>
BillingInfo_sensitive_attributes_numberForgotten == {"verification_value"}
BillingInfo_sensitive_attributes == {"number", "verification_value"}
BillingInfo_xml_attribute_attributes == {"type"}
BillingInfo_linked_attributes == {"account"}

attributes(cls) ==
    IF cls = "Account" THEN Account_attributes ELSE BillingInfo_attributes
sensitive_attributes(cls) ==
    IF cls = "Account" THEN Account_sensitive_attributes
    ELSE BillingInfo_sensitive_attributes
linked_attributes(cls) ==
    IF cls = "Account" THEN Account_linked_attributes
    ELSE BillingInfo_linked_attributes
xml_attribute_attributes(cls) ==
    IF cls = "Account" THEN {} ELSE BillingInfo_xml_attribute_attributes
nodename(cls) == IF cls = "Account" THEN "account" ELSE "billing_info"

\* the value account.billing_info holds once a BillingInfo instance has been
\* assigned to it: the instance kept in the variable billing_info
TheBillingInfo == "<the BillingInfo instance>"

AccountUrl == <<"https://api.recurly.com/v2", "accounts", "acme">>

\* the account documents of the model
AcctElems ==
    { [tag |-> "account", children |-> <<TextChild("account_code", "acme")>>],
      [tag |-> "account", children |->
          <<TextChild("account_code", "acme"),
            LinkChild("billing_info", "https://api/accounts/acme/billing_info")>>],
      [tag |-> "account", children |->
          <<LinkChild("billing_info", "https://api/accounts/acme/billing_info"),
            TextChild("state", "closed")>>],
      [tag |-> "account", children |->
          <<TextChild("account_code", "acme"),
            [tag |-> "billing_info", attrib |-> <<>>, text |-> None,
             children |-> <<TextChild("number", "4111")>>]>>] }

\* the billing_info documents of the model; the second and third carry
\* sensitive values as a server could echo them
BillingElems ==
    { [tag |-> "billing_info", children |-> <<TextChild("first_name", "Ann")>>],
      [tag |-> "billing_info", children |->
          <<TextChild("first_name", "Ann"), TextChild("number", "4111")>>],
      [tag |-> "billing_info", children |->
          <<TextChild("number", "4111"), TextChild("verification_value", "123")>>] }

InvoiceElems ==
    { [tag |-> "invoice", children |-> <<TextChild("uuid", "inv1")>>] }

\* Resource.from_element: the element is wrapped, nothing is decoded
from_element(elem) == [_elem |-> elem, dict |-> <<>>, _url |-> Unset]

\* Resource.update_from_element: the retained element is replaced and the
\* cached resolutions of linked attributes are dropped
update_from_element(cls, self, elem) ==
    [self EXCEPT !._elem = elem,
                 !.dict = [n \in DOMAIN self.dict \ linked_attributes(cls) |-> self.dict[n]]]

\* attribute_set: into the local assignments
attribute_set(self, name, value) ==
    [self EXCEPT !.dict = [n \in DOMAIN self.dict \cup {name} |->
                              IF n = name THEN value ELSE self.dict[n]]]

\* Resource.__getattr__ on a plain attribute: decoded from the retained
\* element (a scalar from the child's text, an embedded entity as an instance
\* wrapping the child); Unset stands for AttributeError
Resource__getattr__(self, name) ==
    LET child == find(self._elem, name)
    IN  IF child = NoElem \/ "href" \in DOMAIN child.attrib THEN Unset
        ELSE IF child.children # <<>> THEN from_element(child)
        ELSE child.text

\* whether Resource.__getattr__ finds the attribute (raises no AttributeError)
Resource_has(self, name) ==
    LET child == find(self._elem, name)
    IN  child # NoElem /\ "href" \notin DOMAIN child.attrib

\* hasattr(self, name)
hasattr(self, name) == name \in DOMAIN self.dict \/ Resource_has(self, name)

\* attribute access: the instance's __dict__ first, then __getattr__
getattr(self, name) ==
    IF name \in DOMAIN self.dict THEN self.dict[name] ELSE Resource__getattr__(self, name)

\* Resource.element_for_value on a scalar
element_for_value(attrname, value) == TextChild(attrname, value)

\* Resource.to_element(full): the declared attributes that are locally
\* assigned, in declaration order (with full, the others from the retained
\* element too, except the sensitive ones); an entity-valued attribute is
\* serialized by the entity's own to_element(): nested is that of the entity
\* locally assigned
RECURSIVE Resource_to_element(_, _, _, _)
RECURSIVE Resource_to_element_children(_, _, _, _, _)
Resource_to_element_children(cls, self, full, nested, names) ==
    IF names = <<>> THEN <<>>
    ELSE LET attrname == Head(names)
             rest == Resource_to_element_children(cls, self, full, nested, Tail(names))
         IN  IF attrname \in xml_attribute_attributes(cls) THEN rest
             ELSE IF attrname \in DOMAIN self.dict
             THEN IF self.dict[attrname] = TheBillingInfo
                  THEN <<nested>> \o rest
                  ELSE <<element_for_value(attrname, self.dict[attrname])>> \o rest
             ELSE IF /\ full
                     /\ attrname \notin sensitive_attributes(cls)
                     /\ Resource_has(self, attrname)
             THEN IF find(self._elem, attrname).children # <<>>
                  THEN <<Resource_to_element("BillingInfo",
                             Resource__getattr__(self, attrname), FALSE, NoElem)>> \o rest
                  ELSE <<element_for_value(attrname, Resource__getattr__(self, attrname))>>
                       \o rest
             ELSE rest

Resource_to_element(cls, self, full, nested) ==
    [tag |-> nodename(cls),
     attrib |-> [n \in {a \in xml_attribute_attributes(cls) : a \in DOMAIN self.dict} |->
                    self.dict[n]],
     text |-> None,
     children |-> Resource_to_element_children(cls, self, full, nested, attributes(cls))]

\* lines 72-87
Account_to_element(self, full, bi) ==
    LET elem == Resource_to_element("Account", self, full,
                    Resource_to_element("BillingInfo", bi, FALSE, NoElem))
        with_code ==
            IF "account_code" \notin DOMAIN self.dict
               /\ hasattr(self, "account_code")
            THEN [elem EXCEPT !.children =
                     Append(@, element_for_value("account_code", getattr(self, "account_code")))]
            ELSE elem
    IN  IF "billing_info" \in DOMAIN self.dict
        THEN [with_code EXCEPT !.children =
                 Append(@, Resource_to_element("BillingInfo", bi, FALSE, NoElem))]
        ELSE with_code

\* Resource.raise_http_error: the request failure a response is turned into
raise_http_error(response) == "ResponseError"

BillingResponses == [status : {200, 404, 500}, body : BillingElems]

MaxReads == 3

\* lines 136-140: the href of the billing_info child; Unset stands for the
\* AttributeError raised when there is no element, no child or no href
billing_info_url(self) ==
    LET child == find(self._elem, "billing_info")
    IN  IF self._elem = NoElem \/ child = NoElem \/ "href" \notin DOMAIN child.attrib
        THEN Unset
        ELSE child.attrib.href

\* account.billing_info: the locally assigned instance if there is one, else
\* Account.__getattr__('billing_info') (lines 134-142), which stores nothing
account_billing_info ==
    /\ reads < MaxReads
    /\ IF "billing_info" \in DOMAIN account.dict
       THEN /\ result' = Returned("billing_info", "account", account.dict.billing_info, <<>>)
            /\ UNCHANGED <<reads, fetches>>
       ELSE IF billing_info_url(account) = Unset
       THEN /\ result' = Raised("billing_info", "account", "AttributeError", <<>>)
            /\ UNCHANGED <<reads, fetches>>
       ELSE \E response \in BillingResponses :
              LET calls   == <<Call(billing_info_url(account), "GET")>>
                  outcome == element_for_url_outcome(response)
              IN  IF outcome # "ok"
                  THEN /\ result' = Answered(Raised("billing_info", "account", outcome, calls),
                                             response)
                       /\ UNCHANGED <<reads, fetches>>
                  ELSE /\ result' = Answered(Returned("billing_info", "account",
                                                 from_element(response.body), calls),
                                             response)
                       /\ reads' = reads + 1
                       /\ fetches' = fetches + 1
    /\ UNCHANGED <<account, billing_info, regVars, txnVars, invVars, pushVars, pageVars, couponVars>>

\* Account.from_element(elem), or Account.get: a new instance, with its URL
\* when it was fetched by identifier
account_from_element(elem, url) ==
    /\ account' = [from_element(elem) EXCEPT !._url = url]
    /\ reads' = 0 /\ fetches' = 0
    /\ result' = Returned("from_element", "account", None, <<>>)
    /\ UNCHANGED <<billing_info, regVars, txnVars, invVars, pushVars, pageVars, couponVars>>

account_update_from_element(elem) ==
    /\ account' = update_from_element("Account", account, elem)
    /\ reads' = 0 /\ fetches' = 0
    /\ result' = Returned("update_from_element", "account", None, <<>>)
    /\ UNCHANGED <<billing_info, regVars, txnVars, invVars, pushVars, pageVars, couponVars>>

account_attribute_set(name, value) ==
    /\ account' = attribute_set(account, name, value)
    /\ reads' = 0 /\ fetches' = 0
    /\ result' = Returned("attribute_set", "account", None, <<>>)
    /\ UNCHANGED <<billing_info, regVars, txnVars, invVars, pushVars, pageVars, couponVars>>

billing_info_from_element(elem) ==
    /\ billing_info' = from_element(elem)
    /\ result' = Returned("from_element", "billing_info", None, <<>>)
    /\ UNCHANGED <<account, reads, fetches, regVars, txnVars, invVars, pushVars, pageVars, couponVars>>

billing_info_update_from_element(elem) ==
    /\ billing_info' = update_from_element("BillingInfo", billing_info, elem)
    /\ result' = Returned("update_from_element", "billing_info", None, <<>>)
    /\ UNCHANGED <<account, reads, fetches, regVars, txnVars, invVars, pushVars, pageVars, couponVars>>

billing_info_attribute_set(name, value) ==
    /\ billing_info' = attribute_set(billing_info, name, value)
    /\ result' = Returned("attribute_set", "billing_info", None, <<>>)
    /\ UNCHANGED <<account, reads, fetches, regVars, txnVars, invVars, pushVars, pageVars, couponVars>>

\* account.to_element(full) and billing_info.to_element(full)
account_to_element(full) ==
    /\ result' = Returned("to_element", "account",
                          Account_to_element(account, full, billing_info), <<>>)
    /\ UNCHANGED <<acctVars, regVars, txnVars, invVars, pushVars, pageVars, couponVars>>

billing_info_to_element(full) ==
    /\ result' = Returned("to_element", "billing_info",
                          Resource_to_element("BillingInfo", billing_info, full, NoElem), <<>>)
    /\ UNCHANGED <<acctVars, regVars, txnVars, invVars, pushVars, pageVars, couponVars>>

\* the answers to the write calls of Account
InvoiceResponses == [status : Statuses, Location : Locations, body : InvoiceElems]
ReopenResponses  == [status : Statuses, Location : {None}, body : AcctElems]
BillingWriteResponses ==
    [status : Statuses, Location : Locations,
     body : {e \in BillingElems : Len(e.children) = 2}]

\* line 157
invoice_failed(response) == response.status # 201

\* line 172
reopen_failed_serverErrorsOnly(response) == response.status >= 500

reopen_failed(response) == response.status # 200

\* lines 190-195 with the Location taken on every success
update_billing_info_status_locationOn200(bi, response) ==
    IF response.status \in {200, 201}
    THEN [raised |-> FALSE, bi |-> [bi EXCEPT !._url = response.Location]]
    ELSE [raised |-> TRUE, bi |-> bi]

\* lines 190-195
update_billing_info_status(bi, response) ==
    IF response.status = 200 THEN [raised |-> FALSE, bi |-> bi]
    ELSE IF response.status = 201
    THEN [raised |-> FALSE, bi |-> [bi EXCEPT !._url = response.Location]]
    ELSE [raised |-> TRUE, bi |-> bi]

\* lines 151-166
account_invoice ==
    /\ IF account._url = Unset \/ ~hasattr(account, "account_code")
       THEN result' = Raised("invoice", "account", "AttributeError", <<>>)
       ELSE \E response \in InvoiceResponses :
              LET url == urljoin(account._url,
                                 <<getattr(account, "account_code"), "invoices">>)
                  calls == <<Request(url, "POST", None, <<>>)>>
              IN  result' = Answered(
                    IF invoice_failed(response)
                    THEN Raised("invoice", "account", raise_http_error(response), calls)
                    ELSE Returned("invoice", "account",
                             [from_element(response.body) EXCEPT !._url = response.Location],
                             calls),
                    response)
    /\ UNCHANGED <<acctVars, regVars, txnVars, invVars, pushVars, pageVars, couponVars>>

\* lines 168-177
account_reopen ==
    /\ IF account._url = Unset \/ ~hasattr(account, "account_code")
       THEN /\ result' = Raised("reopen", "account", "AttributeError", <<>>)
            /\ UNCHANGED <<account, reads, fetches>>
       ELSE \E response \in ReopenResponses :
              LET url == urljoin(account._url,
                                 <<getattr(account, "account_code"), "reopen">>)
                  calls == <<Request(url, "PUT", None, <<>>)>>
              IN  IF reopen_failed(response)
                  THEN /\ result' = Answered(Raised("reopen", "account",
                                                 raise_http_error(response), calls),
                                             response)
                       /\ UNCHANGED <<account, reads, fetches>>
                  ELSE /\ result' = Answered(Returned("reopen", "account", None, calls),
                                             response)
                       /\ account' = update_from_element("Account", account, response.body)
                       /\ reads' = 0 /\ fetches' = 0
    /\ UNCHANGED <<billing_info, regVars, txnVars, invVars, pushVars, pageVars, couponVars>>

\* lines 184-199, called with the BillingInfo instance of the model
account_update_billing_info ==
    /\ IF account._url = Unset \/ ~hasattr(account, "account_code")
       THEN /\ result' = Raised("update_billing_info", "account", "AttributeError", <<>>)
            /\ UNCHANGED billing_info
       ELSE \E response \in BillingWriteResponses :
              LET url == urljoin(account._url,
                                 <<getattr(account, "account_code"), "billing_info">>)
                  calls == <<Request(url, "PUT",
                                 Resource_to_element("BillingInfo", billing_info, FALSE, NoElem),
                                 [ContentType |-> "application/xml; charset=utf-8"])>>
                  handled == update_billing_info_status(billing_info, response)
              IN  IF handled.raised
                  THEN /\ result' = Answered(Raised("update_billing_info", "account",
                                                 raise_http_error(response), calls),
                                             response)
                       /\ billing_info' = handled.bi
                  ELSE /\ result' = Answered(Returned("update_billing_info", "account",
                                                 None, calls),
                                             response)
                       /\ billing_info' = update_from_element("BillingInfo", handled.bi,
                                                              response.body)
    /\ UNCHANGED <<account, reads, fetches, regVars, txnVars, invVars, pushVars, pageVars, couponVars>>

(***************************************************************************)
(* Invoice.as_pdf                                                          *)
(***************************************************************************)
BASE_URI == <<"https://api.recurly.com/v2", "">>

\* lines 382-395
Invoice_attributes ==
    <<"uuid", "state", "invoice_number", "po_number", "vat_number",
      "subtotal_in_cents", "tax_in_cents", "total_in_cents", "currency",
      "created_at", "line_items", "transactions">>

\* line 377
Invoice_member_path(uuid) == <<"invoices", uuid>>

InvoiceDocs ==
    { [tag |-> "invoice", children |-> <<TextChild("uuid", uuid)>> \o more] :
        uuid \in {"inv1", "inv2"},
        more \in {<<>>, <<TextChild("state", "open")>>, <<TextChild("state", "collected")>>} }

PdfResponses ==
    [status : {200, 404, 500},
     ContentType : {"application/pdf", "application/pdf; charset=binary", "text/html"},
     body : {"%PDF-1.4"}]

\* str.startswith('application/pdf') on the Content-Type values of the model
startswith_application_pdf(s) ==
    s \in {"application/pdf", "application/pdf; charset=binary"}

\* self.attributes on an Invoice instance: an instance attribute of that
\* name if one was assigned, else the class attribute of lines 382-395,
\* which is a tuple of names
invoice_attributes(self) ==
    IF "attributes" \in DOMAIN self.dict
    THEN [type |-> "dict", value |-> self.dict.attributes]
    ELSE [type |-> "tuple", value |-> Invoice_attributes]

\* container[key] for a str key: a tuple takes integer indices only
getitem_str(container, key) ==
    IF container.type = "tuple" THEN [error |-> "TypeError", value |-> None]
    ELSE IF key \notin DOMAIN container.value THEN [error |-> "KeyError", value |-> None]
    ELSE [error |-> None, value |-> container.value[key]]

\* lines 398-413
invoice_as_pdf ==
    /\ LET uuid == getitem_str(invoice_attributes(invoice), "uuid") IN
       IF uuid.error # None
       THEN result' = Raised("as_pdf", "invoice", uuid.error, <<>>)
       ELSE \E response \in PdfResponses :
              LET url == urljoin(BASE_URI, Invoice_member_path(uuid.value))
                  calls == <<Request(url, "GET", None, [Accept |-> "application/pdf"])>>
              IN  result' = Answered(
                    IF response.status # 200
                    THEN Raised("as_pdf", "invoice", raise_http_error(response), calls)
                    ELSE IF ~startswith_application_pdf(response.ContentType)
                    THEN Raised("as_pdf", "invoice", "AssertionError", calls)
                    ELSE Returned("as_pdf", "invoice", response.body, calls),
                    response)
    /\ UNCHANGED <<invVars, regVars, txnVars, acctVars, pushVars, pageVars, couponVars>>

\* Invoice.from_element(elem), or Invoice.get(uuid)
invoice_from_element(elem) ==
    /\ invoice' = [_elem |-> elem, dict |-> <<>>]
    /\ result' = Returned("from_element", "invoice", None, <<>>)
    /\ UNCHANGED <<regVars, txnVars, acctVars, pushVars, pageVars, couponVars>>

invoice_attribute_set(name, value) ==
    /\ invoice' = attribute_set(invoice, name, value)
    /\ result' = Returned("attribute_set", "invoice", None, <<>>)
    /\ UNCHANGED <<regVars, txnVars, acctVars, pushVars, pageVars, couponVars>>

(***************************************************************************)
(* objects_for_push_notification                                           *)
(***************************************************************************)
MaxPushChildren == 2

PushChildren ==
    { [tag |-> tag, attrib |-> <<>>, text |-> text, children |-> <<>>] :
        tag \in {"account", "subscription", "type"}, text \in {"1", "2"} }

\* the parsed notification documents of the model
Notifications ==
    { [tag |-> kind, children |-> cs] :
        kind \in {"new_account_notification", "canceled_subscription_notification"},
        cs \in SeqsUpTo(PushChildren, MaxPushChildren) }

\* objects[tag] = res
dict_setitem(d, key, value) ==
    [k \in DOMAIN d \cup {key} |-> IF k = key THEN value ELSE d[k]]

\* a dict that keeps the value a key already has
dict_setdefault(d, key, value) ==
    [k \in DOMAIN d \cup {key} |-> IF k \in DOMAIN d THEN d[k] ELSE value]

\* lines 837-840: the loop over the children
RECURSIVE push_children_firstWins(_, _, _)
push_children_firstWins(registry, children, objs) ==
    IF children = <<>> THEN objs
    ELSE LET child_el == Head(children)
             tag == child_el.tag
             res == value_for_element(registry, child_el)
         IN  push_children_firstWins(registry, Tail(children), dict_setdefault(objs, tag, res))

RECURSIVE push_children(_, _, _)
push_children(registry, children, objs) ==
    IF children = <<>> THEN objs
    ELSE LET child_el == Head(children)
             tag == child_el.tag
             res == value_for_element(registry, child_el)
         IN  push_children(registry, Tail(children), dict_setitem(objs, tag, res))

\* lines 824-841, on the parsed document; the str under "type" is kept as
\* [str |-> tag]
objects_for_push_notification_firstWins(registry, notification_el) ==
    push_children_firstWins(registry, notification_el.children,
                            [type |-> [str |-> notification_el.tag]])

objects_for_push_notification(registry, notification_el) ==
    push_children(registry, notification_el.children,
                  [type |-> [str |-> notification_el.tag]])

\* a notification arrives
receive_push_notification(doc) ==
    /\ notification' = doc
    /\ objects' = <<>>
    /\ result' = Returned("receive", "push", None, <<>>)
    /\ UNCHANGED <<regVars, txnVars, acctVars, invVars, pageVars, couponVars>>

\* the notification is decoded
decode_push_notification ==
    /\ notification # NoElem
    /\ objects' = objects_for_push_notification(_classes_for_nodename, notification)
    /\ result' = Returned("objects_for_push_notification", "push", None, <<>>)
    /\ UNCHANGED <<notification, regVars, txnVars, acctVars, invVars, pageVars, couponVars>>

(***************************************************************************)
(* Page: traversal of a paginated collection                               *)
(***************************************************************************)
MaxPages == 3
MaxPageSize == 2

\* the entity at position i of page p
Entity(p, i) == <<p, i>>

\* the server's collection with the given page sizes
PagesOfSizes(sizes) == [p \in 1..Len(sizes) |-> [i \in 1..sizes[p] |-> Entity(p, i)]]

RECURSIVE SeqsOfLen(_, _)
SeqsOfLen(S, n) ==
    IF n = 0 THEN {<<>>} ELSE {Append(s, x) : s \in SeqsOfLen(S, n - 1), x \in S}

\* collections of 1..MaxPages pages of 0..MaxPageSize entities
Collections ==
    UNION { {PagesOfSizes(sizes) : sizes \in SeqsOfLen(0..MaxPageSize, n)} : n \in 1..MaxPages }

\* the closed accounts, a collection of its own
ClosedCollection == <<<<<<0, 1>>>>>>

\* the pages the server holds for a state filter
ServerPages(state) == IF state = "active" THEN collection ELSE ClosedCollection

\* a reading call for one page: its entities and its next-page link (<<url>>,
\* or <<>> on the last page)
FetchPage(url) ==
    LET pages == ServerPages(url.state)
    IN  [items |-> pages[url.page],
         next  |-> IF url.page < Len(pages) THEN <<[url EXCEPT !.page = @ + 1]>> ELSE <<>>,
         status |-> "open"]

\* line 105
Account_all_closed_url == [path |-> "accounts", state |-> "closed", page |-> 1]

\* line 96: cls.all(state='active')
Account_all_active_url == [path |-> "accounts", state |-> "active", page |-> 1]

\* lines 89-96: the first page is read when the Page is made
Account_all_active ==
    /\ page.status = "none"
    /\ page' = FetchPage(Account_all_active_url)
    /\ requests' = requests + 1
    /\ result' = Returned("all_active", "Account", None, <<>>)
    /\ UNCHANGED <<collection, yielded, regVars, txnVars, acctVars, invVars, pushVars,
                   couponVars>>

\* the pages read to reach the next entity: from a page with nothing left to
\* yield the next-page link is followed, until an entity or the last page
RECURSIVE Advance(_, _)
Advance(pg, n) ==
    IF pg.items # <<>> \/ pg.next = <<>> THEN [page |-> pg, fetched |-> n]
    ELSE Advance(FetchPage(Head(pg.next)), n + 1)

\* one step of the iteration over the Page
Page_next ==
    /\ page.status # "none"
    /\ LET adv == IF page.status = "ended" THEN [page |-> page, fetched |-> 0]
                  ELSE Advance(page, 0)
       IN  IF adv.page.items # <<>>
           THEN /\ yielded' = Append(yielded, Head(adv.page.items))
                /\ page' = [adv.page EXCEPT !.items = Tail(@)]
                /\ requests' = requests + adv.fetched
                /\ result' = Returned("next", "Page", None, <<>>)
           ELSE /\ page' = [adv.page EXCEPT !.status = "ended"]
                /\ requests' = requests + adv.fetched
                /\ result' = Raised("next", "Page", "StopIteration", <<>>)
                /\ UNCHANGED yielded
    /\ UNCHANGED <<collection, regVars, txnVars, acctVars, invVars, pushVars, couponVars>>

(***************************************************************************)
(* Coupon: the plan_codes override of the Value Codec                      *)
(***************************************************************************)
MaxCodes == 2

PlanCodes == {"gold", "silver", "basic"}

\* the lists of plan codes of the model
PlanCodeLists == SeqsUpTo(PlanCodes, MaxCodes)

\* bool(elem) of an ElementTree element: whether it has children
Element_bool(elem) == Len(elem.children) > 0

\* Resource.value_for_element, the generic Value Codec: a typed array gives
\* one item per child, in order; an untyped element with children is an
\* entity; any other element is its text
RECURSIVE Resource_value_for_element(_)
Resource_value_for_element(elem) ==
    IF attrib_get(elem.attrib, "type") = "array"
    THEN [i \in 1..Len(elem.children) |-> Resource_value_for_element(elem.children[i])]
    ELSE IF elem.children # <<>>
    THEN <<[type |-> "Resource", _elem |-> elem]>>
    ELSE elem.text

\* lines 286-298 without line 291
Coupon_element_for_value_untyped(attrname, value) ==
    IF attrname # "plan_codes" THEN element_for_value(attrname, value)
    ELSE [tag |-> attrname, attrib |-> <<>>, text |-> None,
          children |-> [i \in 1..Len(value) |-> TextChild("plan_code", value[i])]]

\* lines 286-298
Coupon_element_for_value(attrname, value) ==
    IF attrname # "plan_codes" THEN element_for_value(attrname, value)
    ELSE [tag |-> attrname, attrib |-> [type |-> "array"], text |-> None,
          children |-> [i \in 1..Len(value) |-> TextChild("plan_code", value[i])]]

\* lines 278-284; by records which codec produced the value
Coupon_value_for_element(elem) ==
    IF \/ ~Element_bool(elem)
       \/ elem.tag # "plan_codes"
       \/ attrib_get(elem.attrib, "type") # "array"
    THEN [by |-> "generic", value |-> Resource_value_for_element(elem)]
    ELSE [by |-> "override",
          value |-> [i \in 1..Len(elem.children) |-> elem.children[i].text]]

\* elements of a coupon document as the server sends them
CouponElems ==
    { [tag |-> tag, attrib |-> attrib, text |-> None,
       children |-> [i \in 1..Len(codes) |-> TextChild("plan_code", codes[i])]] :
         tag \in {"plan_codes", "plans"},
         attrib \in {<<>>, [type |-> "array"]},
         codes \in PlanCodeLists }

\* Coupon.element_for_value(attrname, value)
coupon_element_for_value(attrname, value) ==
    /\ coupon' = [source |-> "encoded", attrname |-> attrname, value |-> <<value>>,
                  elem |-> Coupon_element_for_value(attrname, value)]
    /\ result' = Returned("element_for_value", "Coupon", coupon'.elem, <<>>)
    /\ UNCHANGED <<regVars, txnVars, acctVars, invVars, pushVars, pageVars>>

\* an element of a response
coupon_element_received(elem) ==
    /\ coupon' = [source |-> "server", attrname |-> elem.tag, value |-> <<>>,
                  elem |-> elem]
    /\ result' = Returned("received", "Coupon", elem, <<>>)
    /\ UNCHANGED <<regVars, txnVars, acctVars, invVars, pushVars, pageVars>>

\* Coupon.value_for_element(elem) on the element at hand
coupon_value_for_element ==
    /\ coupon.source # "none"
    /\ result' = Returned("value_for_element", "Coupon",
                          Coupon_value_for_element(coupon.elem), <<>>)
    /\ UNCHANGED <<couponVars, regVars, txnVars, acctVars, invVars, pushVars, pageVars>>

(***************************************************************************)
(* Initial states and specifications                                       *)
(***************************************************************************)
RegLoaded ==
    /\ _classes_for_nodename = LoadedRegistry
    /\ classes = {}
    /\ learned = ModuleLocals
    /\ config_error = FALSE

TxnIdle ==
    /\ txn = [t \in Txns |-> [_elem |-> NoElem, _refund_transaction_url |-> Unset]]
    /\ accepted = [t \in Txns |-> Unset]

AcctIdle ==
    /\ account = [_elem |-> NoElem, dict |-> <<>>, _url |-> Unset]
    /\ billing_info = [_elem |-> NoElem, dict |-> <<>>, _url |-> Unset]
    /\ reads = 0
    /\ fetches = 0

InvIdle == invoice = [_elem |-> NoElem, dict |-> <<>>]

PushIdle ==
    /\ notification = NoElem
    /\ objects = <<>>

PageIdle ==
    /\ collection = <<>>
    /\ page = [items |-> <<>>, next |-> <<>>, status |-> "none"]
    /\ yielded = <<>>
    /\ requests = 0

CouponIdle ==
    coupon = [source |-> "none", attrname |-> None, value |-> <<>>, elem |-> NoElem]

\* the import of recurly/__init__.py: line 821 hands locals().values() to
\* _learn_nodenames; RegistryInit also draws an argument with a clashing type
RegistryInit ==
    /\ learned \in {ModuleLocals, ModuleLocals \cup {ClashingClass}}
    /\ classes = learned
    /\ _classes_for_nodename = <<>>
    /\ config_error = FALSE
    /\ TxnIdle /\ AcctIdle /\ InvIdle /\ PushIdle /\ PageIdle /\ CouponIdle
    /\ result = NoResult

RegistryNext == \E c \in ModuleLocals \cup {ClashingClass} : _learn_nodenames(c)

SpecRegistry == RegistryInit /\ [][RegistryNext]_vars

TxnInit ==
    /\ RegLoaded /\ TxnIdle /\ AcctIdle /\ InvIdle /\ PushIdle /\ PageIdle /\ CouponIdle
    /\ result = NoResult

TxnStep(T, E) ==
    \E t \in T :
        \/ refund(t)
        \/ get_refund_transaction(t)
        \/ \E elem \in E : txn_from_element(t, elem)
        \/ \E elem \in E : txn_update_from_element(t, elem)

\* one Transaction instance over every element of the model
TxnNext == TxnStep({"t1"}, TxnElems)

SpecTxn == TxnInit /\ [][TxnNext]_vars

\* two Transaction instances over a few elements: one without actions, one
\* with a refund action, one with a void and a refund action
FewTxnElems ==
    {e \in TxnElems :
        \/ e.children = <<>>
        \/ Len(e.children) = 1 /\ e.children[1].attrib.method = "post"
        \/ /\ Len(e.children) = 2
           /\ e.children[1].attrib.name = "void"
           /\ e.children[2].attrib.method = "Put"}

RefundNext == TxnStep(Txns, FewTxnElems)

SpecRefund == TxnInit /\ [][RefundNext]_vars

AcctInit ==
    /\ RegLoaded /\ TxnIdle /\ AcctIdle /\ InvIdle /\ PushIdle /\ PageIdle /\ CouponIdle
    /\ result = NoResult

\* reads of account.billing_info between hydrations, updates and assignments
LinkNext ==
    \/ \E elem \in AcctElems, url \in {Unset, AccountUrl} : account_from_element(elem, url)
    \/ \E elem \in AcctElems : account_update_from_element(elem)
    \/ account_attribute_set("billing_info", TheBillingInfo)
    \/ account_billing_info

SpecLink == AcctInit /\ [][LinkNext]_vars

\* the write operations of Account
WriteNext ==
    \/ \E elem \in AcctElems, url \in {Unset, AccountUrl} : account_from_element(elem, url)
    \/ \E name \in {"first_name", "number"} : billing_info_attribute_set(name, "v")
    \/ account_invoice
    \/ account_reopen
    \/ account_update_billing_info

SpecWrite == AcctInit /\ [][WriteNext]_vars

\* serialization of an Account and a BillingInfo
SerializeNext ==
    \/ \E elem \in AcctElems : account_from_element(elem, Unset)
    \/ \E elem \in AcctElems : account_update_from_element(elem)
    \/ account_attribute_set("account_code", "acme2")
    \/ account_attribute_set("billing_info", TheBillingInfo)
    \/ account_attribute_set("number", "4242")
    \/ \E elem \in BillingElems : billing_info_from_element(elem)
    \/ \E elem \in BillingElems : billing_info_update_from_element(elem)
    \/ \E name \in {"first_name", "number", "verification_value"} :
            billing_info_attribute_set(name, "v")
    \/ \E full \in BOOLEAN : account_to_element(full)
    \/ \E full \in BOOLEAN : billing_info_to_element(full)

SpecSerialize == AcctInit /\ [][SerializeNext]_vars

InvoiceNext ==
    \/ \E elem \in InvoiceDocs : invoice_from_element(elem)
    \/ \E name \in {"uuid", "state"}, value \in {"inv3", "x"} : invoice_attribute_set(name, value)
    \/ invoice_as_pdf

SpecInvoice == AcctInit /\ [][InvoiceNext]_vars

PushNext ==
    \/ \E doc \in Notifications : receive_push_notification(doc)
    \/ decode_push_notification

SpecPush == AcctInit /\ [][PushNext]_vars

PageInit ==
    /\ RegLoaded /\ TxnIdle /\ AcctIdle /\ InvIdle /\ PushIdle /\ CouponIdle
    /\ collection \in Collections
    /\ page = [items |-> <<>>, next |-> <<>>, status |-> "none"]
    /\ yielded = <<>>
    /\ requests = 0
    /\ result = NoResult

PageNext == Account_all_active \/ Page_next

SpecPage == PageInit /\ [][PageNext]_vars

\* encoding and decoding of Coupon attributes
CouponNext ==
    \/ \E L \in PlanCodeLists : coupon_element_for_value("plan_codes", L)
    \/ \E name \in PlanCodes : coupon_element_for_value("name", name)
    \/ \E elem \in CouponElems : coupon_element_received(elem)
    \/ coupon_value_for_element

SpecCoupon == AcctInit /\ [][CouponNext]_vars

(***************************************************************************)
(* Claims                                                                  *)
(***************************************************************************)
\* the refund anchors of an element, as the wire format defines them: the
\* positions of the direct <a> children named "refund" carrying href and method
RefundAnchorsAt(elem) ==
    {i \in 1..Len(elem.children) :
        /\ elem.children[i].tag = "a"
        /\ {"name", "href", "method"} \subseteq DOMAIN elem.children[i].attrib
        /\ elem.children[i].attrib.name = "refund"}

LastRefundAnchor(elem) ==
    LET last == CHOOSE i \in RefundAnchorsAt(elem) :
                    \A j \in RefundAnchorsAt(elem) : j <= i
    IN  elem.children[last].attrib

UpperCased == [post |-> "POST", Put |-> "PUT", delete |-> "DELETE"]

\* C1: Transaction.refund is resolvable exactly when the retained element
\* holds an <a> anchor named "refund": then refund issues one call, to that
\* anchor's href with that anchor's method upper-cased (the last such anchor
\* when several are named "refund"); with no retained element, or none with
\* such an anchor, refund raises AttributeError and issues no HTTP call.
C1_RefundResolvable ==
    result.op = "refund" =>
        LET self == txn[result.self] IN
        IF self._elem # NoElem /\ RefundAnchorsAt(self._elem) # {}
        THEN LET anchor == LastRefundAnchor(self._elem) IN
             result.calls = <<[url |-> anchor.href,
                               method |-> UpperCased[anchor.method],
                               body |-> None, headers |-> <<>>]>>
        ELSE /\ result.kind = "raise"
             /\ result.value = "AttributeError"
             /\ result.calls = <<>>

\* C1 witness: a refund resolved on an element holding two anchors, the
\* first of them not the refund action
C1_Witness ==
    /\ result.op = "refund"
    /\ Len(result.calls) = 1
    /\ Len(txn[result.self]._elem.children) = 2
    /\ txn[result.self]._elem.children[1].attrib.name = "void"
    /\ result.calls[1].method = "PUT"

\* C2: reads of account.billing_info (linked by href, not locally assigned)
\* that returned a value since the account was last hydrated, updated or
\* assigned to have issued exactly one reading call between them.
C2_ResolvedOnce == reads >= 1 => fetches = 1

HasChild(elem, tag) == \E i \in 1..Len(elem.children) : elem.children[i].tag = tag

SensitiveNames == {"number", "verification_value"}

\* the sensitive children of a serialized billing_info are the locally
\* assigned ones, with the locally assigned values
BillingSerializedFromLocals(elem) ==
    \A s \in SensitiveNames :
        /\ HasChild(elem, s) <=> s \in DOMAIN billing_info.dict
        /\ \A i \in 1..Len(elem.children) :
              elem.children[i].tag = s => elem.children[i].text = billing_info.dict[s]

\* the billing_info elements of a serialized account: a sensitive child is a
\* value locally assigned on the BillingInfo assigned to the account, and the
\* element Account.to_element appends for that BillingInfo holds all of them
NestedBillingFromLocals(elem) ==
    /\ \A i \in 1..Len(elem.children) :
          elem.children[i].tag = "billing_info" =>
              \A s \in SensitiveNames :
                  HasChild(elem.children[i], s) =>
                      /\ "billing_info" \in DOMAIN account.dict
                      /\ BillingSerializedFromLocals(elem.children[i])
    /\ "billing_info" \in DOMAIN account.dict =>
          /\ elem.children # <<>>
          /\ elem.children[Len(elem.children)].tag = "billing_info"
          /\ BillingSerializedFromLocals(elem.children[Len(elem.children)])

NonSuccess(status) == status < 200 \/ status >= 300

\* C6: Invoice.as_pdf on an invoice whose uuid is known issues one reading
\* call to invoices/<uuid> with Accept: application/pdf; it returns the body
\* of a 200 answer of type application/pdf, raises a request failure for
\* another status and never returns the body of another Content-Type.
C6_AsPdf ==
    (result.op = "as_pdf" /\ hasattr(invoice, "uuid")) =>
        /\ result.calls =
             <<[url |-> <<"https://api.recurly.com/v2", "invoices", getattr(invoice, "uuid")>>,
                method |-> "GET", body |-> None,
                headers |-> [Accept |-> "application/pdf"]]>>
        /\ IF result.response.status # 200
           THEN result.kind = "raise" /\ result.value = "ResponseError"
           ELSE IF result.response.ContentType \in {"application/pdf",
                                                    "application/pdf; charset=binary"}
           THEN result.kind = "return" /\ result.value = result.response.body
           ELSE result.kind = "raise"

\* the value the Type Registry decodes a child of a notification to
DecodedChild(child) ==
    [type |-> CASE child.tag = "account"      -> "Account"
                [] child.tag = "subscription" -> "Subscription"
                [] OTHER                      -> "Resource",
     _elem |-> child]

ChildTags(doc) == {doc.children[i].tag : i \in 1..Len(doc.children)}

LastChildTagged(doc, tag) ==
    LET at == {i \in 1..Len(doc.children) : doc.children[i].tag = tag}
    IN  doc.children[CHOOSE i \in at : \A j \in at : j <= i]

RECURSIVE FlattenFrom(_, _)
FlattenFrom(pages, p) ==
    IF p > Len(pages) THEN <<>> ELSE pages[p] \o FlattenFrom(pages, p + 1)

IsPrefix(s, t) == Len(s) <= Len(t) /\ SubSeq(t, 1, Len(s)) = s

\* C10: the traversal of the active accounts, n pages of which all but the
\* last carry a next-page link, yields the entities of the n pages in page
\* order and in-page order with exactly n reading calls, then signals the end
\* of the sequence (no error), and issues no request after that.
C10_PaginationComplete ==
    /\ page.status # "none" =>
          /\ IsPrefix(yielded, FlattenFrom(collection, 1))
          /\ requests >= 1
          /\ requests <= Len(collection)
    /\ page.status = "ended" =>
          /\ yielded = FlattenFrom(collection, 1)
          /\ requests = Len(collection)
          /\ result.op = "next"
          /\ result.kind = "raise"
          /\ result.value = "StopIteration"

\* C10 witness: a traversal of three pages has ended, the second page having
\* held one entity and the others two
C10_Witness ==
    /\ page.status = "ended"
    /\ Len(collection) = 3
    /\ Len(collection[2]) = 1
    /\ Len(yielded) = 5
    /\ requests = 3

\* the number of children of elem with the tag
CountTagged(elem, tag) ==
    Cardinality({i \in 1..Len(elem.children) : elem.children[i].tag = tag})

\* C11: Account.to_element, with full or without, returns an element with
\* exactly one account_code child carrying the account's code whenever the
\* account has one (locally assigned or in its retained element), and with no
\* account_code child, raising nothing, when it has none.
C11_AccountCodeOnce ==
    (result.op = "to_element" /\ result.self = "account") =>
        /\ result.kind = "return"
        /\ IF hasattr(account, "account_code")
           THEN /\ CountTagged(result.value, "account_code") = 1
                /\ find(result.value, "account_code").text = getattr(account, "account_code")
           ELSE CountTagged(result.value, "account_code") = 0

\* C12: Account.update_billing_info answered 201 makes the response's
\* Location the billing info's canonical URL, answered 200 leaves that URL
\* as it was, and in both cases replaces the billing info's retained element
\* by the decoded response body; the account (retained element, local
\* assignments, canonical URL) is as it was.
C12_BillingInfoPromoted ==
    [][(result'.op = "update_billing_info")
       => /\ account' = account
          /\ (result'.calls # <<>> /\ result'.response.status = 201)
                => /\ result'.kind = "return"
                   /\ billing_info'._url = result'.response.Location
                   /\ billing_info'._elem = result'.response.body
          /\ (result'.calls # <<>> /\ result'.response.status = 200)
                => /\ result'.kind = "return"
                   /\ billing_info'._url = billing_info._url
                   /\ billing_info'._elem = result'.response.body]_vars

\* C12 witness: update_billing_info answered 200 on a billing info whose
\* canonical URL an earlier 201 answer had set, with another document
C12_Witness ==
    /\ result.op = "update_billing_info"
    /\ result.kind = "return"
    /\ result.response.status = 200
    /\ billing_info._url \in Locations
    /\ billing_info._url # result.response.Location
    /\ billing_info._elem = result.response.body
    /\ account._elem # NoElem

\* the element Coupon.element_for_value('plan_codes', L) is to return
PlanCodesElement(L) ==
    [tag |-> "plan_codes", attrib |-> [type |-> "array"], text |-> None,
     children |-> [i \in 1..Len(L) |->
                     [tag |-> "plan_code", attrib |-> <<>>, text |-> L[i],
                      children |-> <<>>]]]

\* C13 (as amended): Coupon.element_for_value('plan_codes', L) is a
\* plan_codes element of type "array" with one plan_code child per code, and
\* Coupon.value_for_element of it equals L in order; the value is produced by
\* the override exactly when L is not empty, and by the generic Value Codec
\* (which the override delegates a childless element to) when L is empty.
C13_PlanCodesRoundTrip ==
    (/\ result.op = "value_for_element"
     /\ coupon.source = "encoded"
     /\ coupon.attrname = "plan_codes")
    => /\ coupon.elem = PlanCodesElement(coupon.value[1])
       /\ result.value.value = coupon.value[1]
       /\ (result.value.by = "override") <=> (coupon.value[1] # <<>>)

\* C13 witness: a list of two different plan codes, not in alphabetical order,
\* was encoded and decoded again
C13_Witness ==
    /\ result.op = "value_for_element"
    /\ coupon.source = "encoded"
    /\ coupon.attrname = "plan_codes"
    /\ coupon.value[1] = <<"silver", "gold">>
    /\ result.value = [by |-> "override", value |-> <<"silver", "gold">>]

\* C13 (as claimed): for every list L, the empty one included, the round trip
\* is produced by the override and equals L in order.
C13_Original ==
    (/\ result.op = "value_for_element"
     /\ coupon.source = "encoded"
     /\ coupon.attrname = "plan_codes")
    => /\ coupon.elem = PlanCodesElement(coupon.value[1])
       /\ result.value.value = coupon.value[1]
       /\ result.value.by = "override"

\* C7: a non-2xx answer to Account.invoice, Account.reopen or
\* Account.update_billing_info is raised as a request failure, and the
\* account and the billing info are then left as they were.
C7_WritesSurfaceFailures ==
    [][(/\ result'.op \in {"invoice", "reopen", "update_billing_info"}
        /\ result'.calls # <<>>
        /\ NonSuccess(result'.response.status))
       => /\ result'.kind = "raise"
          /\ result'.value = "ResponseError"
          /\ account' = account
          /\ billing_info' = billing_info]_vars

\* C7 witness: update_billing_info answered 404 on a billing info that an
\* earlier update had given a retained element and a canonical URL
C7_Witness ==
    /\ result.op = "update_billing_info"
    /\ result.calls # <<>>
    /\ result.response.status = 404
    /\ result.kind = "raise"
    /\ billing_info._elem # NoElem
    /\ billing_info._url # Unset

\* C4: a refund call answered 202 records the response's Location as the
\* transaction's follow-up URL and returns the same instance; answered with
\* any other status (200 and 201 included) refund raises a request failure
\* and leaves the follow-up URL as it was.
C4_RefundAccepted ==
    [][\A t \in Txns :
        (result'.op = "refund" /\ result'.self = t /\ result'.calls # <<>>) =>
            IF result'.response.status = 202
            THEN /\ result'.kind = "return"
                 /\ result'.value = t
                 /\ txn'[t]._refund_transaction_url = result'.response.Location
                 /\ txn'[t]._elem = txn[t]._elem
            ELSE /\ result'.kind = "raise"
                 /\ result'.value = "ResponseError"
                 /\ txn'[t] = txn[t]]_vars

\* C4 witness: a refund answered 200 failed on a transaction whose earlier
\* refund had been accepted
C4_Witness ==
    /\ result.op = "refund"
    /\ result.calls # <<>>
    /\ result.response.status = 200
    /\ result.kind = "raise"
    /\ txn[result.self]._refund_transaction_url # Unset

\* C5: get_refund_transaction raises ValueError and issues no HTTP call unless
\* an earlier refund on that same instance completed with status 202; after
\* one, it issues a reading call to the Location of the most recent accepted
\* refund and, when that call succeeds, returns the decoded result.
C5_RefundThenGet ==
    result.op = "get_refund_transaction" =>
        LET t == result.self IN
        IF accepted[t] = Unset
        THEN /\ result.kind = "raise"
             /\ result.value = "ValueError"
             /\ result.calls = <<>>
        ELSE /\ result.calls = <<[url |-> accepted[t], method |-> "GET",
                                  body |-> None, headers |-> <<>>]>>
             /\ result.response.status = 200 =>
                    /\ result.kind = "return"
                    /\ result.value =
                         [type |-> IF result.response.body.tag = "transaction"
                                   THEN "Transaction" ELSE "Resource",
                          _elem |-> result.response.body]

\* C5 witness: the other instance has an accepted refund, this one has two,
\* and get_refund_transaction returned the transaction read from the later
\* Location
C5_Witness ==
    /\ result.op = "get_refund_transaction"
    /\ result.kind = "return"
    /\ result.self = "t1"
    /\ accepted["t1"] = "https://api/transactions/r2"
    /\ accepted["t2"] = "https://api/transactions/r1"
    /\ result.value.type = "Transaction"

\* C9: once the registration step has run over the module's classes, no
\* configuration error was raised, the thirteen declared types have pairwise
\* distinct nodenames and each nodename resolves to its own type; run over
\* classes of which two share a tag it ends in a configuration error, and at
\* no point does a tag resolve to a type of another tag.
C9_OneTypePerTag ==
    /\ \A tag \in DOMAIN _classes_for_nodename :
            /\ _classes_for_nodename[tag].nodename = tag
            /\ _classes_for_nodename[tag] \in learned
    /\ RegistrationDone =>
            IF learned = ModuleLocals
            THEN /\ ~config_error
                 /\ Cardinality(DeclaredClasses) = 13
                 /\ Cardinality(DOMAIN _classes_for_nodename) = 13
                 /\ \A c \in DeclaredClasses :
                        resolve(_classes_for_nodename, c.nodename) = c
            ELSE config_error

\* C9 witness: the registration over the module's classes has ended with
\* SubscriptionAddOn and AddOn each under their own tag
C9_Witness ==
    /\ classes = {}
    /\ learned = ModuleLocals
    /\ "subscription_add_on" \in DOMAIN _classes_for_nodename
    /\ _classes_for_nodename["subscription_add_on"].name = "SubscriptionAddOn"
    /\ _classes_for_nodename["add_on"].name = "AddOn"

=============================================================================
